---- MODULE Spec2Model ----
(***************************************************************************)
(* MultiDeviceExecutableNetwork (multi_device_exec_network.cpp): the       *)
(* device/worker scheduler of the MULTI plugin.  Every shared-memory       *)
(* access of run, ScheduleToWorkerInferRequest, the completion callback,   *)
(* SetConfig and the destructor is one atomic step; the steps of different *)
(* threads interleave freely.                                              *)
(***************************************************************************)
EXTENDS Integers, Sequences, FiniteSets, TLC

\* ------------------------------------------------------------------ bounds
MaxTasks == 3           \* run() calls made in one behaviour
MaxSetConfig == 1       \* SetConfig() calls made in one behaviour

\* ------------------------------------------------------- the environment
\* the device names: A and B can be loaded at construction, C never is
Devices == {"A", "B", "C"}
NewDevice == "C"
\* the submitting thread of the application, which calls run()
Callers == {<<"u1", 0>>}
\* DeviceInformation{deviceName, numRequestsPerDevices}
DevInfo(d, n) == [deviceName |-> d, numRequestsPerDevices |-> n]
\* constructor arguments: networksPerDevice (with the OPTIMAL_NUMBER_OF_INFER_REQUESTS
\* metric each loaded network reports) and networkDevices
CtorArgs ==
    { [networkDevices |-> <<DevInfo("A", -1), DevInfo("B", -1)>>,
       optimalNum |-> [d \in {"A", "B"} |-> 1]],
      [networkDevices |-> <<DevInfo("A", 2)>>,
       optimalNum |-> [d \in {"A"} |-> 1]] }
MaxRequests == 2
AllSlots == {"A", "B"} \X (1..MaxRequests)
Threads == Callers \cup AllSlots
NoTask == 0
NoSlot == <<"", 0>>
KEY_MULTI_DEVICE_PRIORITIES == "MULTI_DEVICE_PRIORITIES"
OtherKey == "PERF_COUNT"

Range(s) == {s[i] : i \in 1..Len(s)}
Names(devs) == [i \in 1..Len(devs) |-> devs[i].deviceName]

\* the priorities string "A,B(2)" as its list of <<name, count>> items, count -1
\* where the item has no "(n)" suffix
ParseMetaDevices(value) ==
    [i \in 1..Len(value) |-> DevInfo(value[i][1], value[i][2])]
PrioritiesValue(devs) ==
    [i \in 1..Len(devs) |-> <<devs[i].deviceName, devs[i].numRequestsPerDevices>>]

\* the config maps SetConfig is called with
ConfigInputs ==
    { [keys |-> {KEY_MULTI_DEVICE_PRIORITIES}, value |-> v] :
        v \in { <<<<"B", -1>>, <<"A", -1>>>>, <<<<"B", -1>>>>,
                <<<<"A", -1>>, <<NewDevice, -1>>>>, <<<<"B", 2>>, <<"A", -1>>>> } }
    \cup { [keys |-> {OtherKey}, value |-> <<>>],
           [keys |-> {KEY_MULTI_DEVICE_PRIORITIES, OtherKey},
            value |-> <<<<"B", -1>>, <<"A", -1>>>>] }

VARIABLES
    ctor,                \* the constructor's arguments (never change)
    networksPerDevice,   \* _networksPerDevice: the loaded devices
    workerRequests,      \* _workerRequests: device -> number of WorkerInferRequests
    destroyed,           \* the WorkerInferRequests already destroyed by the destructor
    devicePriorities,    \* _devicePriorities (guarded by _mutex)
    config,              \* _config[KEY_MULTI_DEVICE_PRIORITIES]
    idleWorkerRequests,  \* _idleWorkerRequests: device -> queue of slots
    inferPipelineTasks,  \* _inferPipelineTasks: queue of task ids
    terminate,           \* _terminate
    task,                \* WorkerInferRequest::_task per slot (NoTask when empty)
    pc,                  \* per thread: where it is
    devices,             \* per thread: the snapshot `devices` of the scheduler pass
    idx,                 \* per thread: position of the range-for in `devices`
    workerRequestPtr,    \* per thread: the slot popped by the pass
    inferPipelineTask,   \* per thread: run's argument / the task popped by the pass
    dtor,                \* the destructor's position
    nextTask,            \* id of the next task handed to run()
    nSetConfig,          \* SetConfig calls made so far
    rejected,            \* history: tasks run() dropped because _terminate was set
    setConfigResult,     \* history: how the last SetConfig call ended
    solo,                \* history: the operation running with no concurrent activity
    hist                 \* history: the operations so far (<<op, device>>), while
                         \* none overlapped another

vars == <<ctor, networksPerDevice, workerRequests, destroyed, devicePriorities, config,
          idleWorkerRequests, inferPipelineTasks, terminate, task, pc, devices, idx,
          workerRequestPtr, inferPipelineTask, dtor, nextTask, nSetConfig, rejected,
          setConfigResult, solo, hist>>

Slots == {s \in AllSlots : s[2] <= workerRequests[s[1]]}
Dev(s) == s[1]

\* ------------------------------------------------------------ constructor
\* mutant of NumRequests: the caller's count is ignored
NumRequestsOptimalOnly(args, d) == args.optimalNum[d]

\* lines 76-77: the caller's count unless the device is not listed or lists -1
NumRequests(args, d) ==
    LET listed == {i \in 1..Len(args.networkDevices) :
                       args.networkDevices[i].deviceName = d}
    IN  IF listed = {} \/ (\E i \in listed :
                             args.networkDevices[i].numRequestsPerDevices = -1)
        THEN args.optimalNum[d]
        ELSE LET i == CHOOSE j \in listed : \A k \in listed : j <= k
             IN  args.networkDevices[i].numRequestsPerDevices

\* mutants of PushIdle: the guard is not released before the explicit push (the
\* slot is queued twice); the push is lost
PushIdleTwice(queue, s) == Append(Append(queue, s), s)
PushIdleDropped(queue, s) == queue

\* lines 39, 85, 95: NotBusyWorkerRequests::push
PushIdle(queue, s) == Append(queue, s)

\* lines 80-85: every slot of the device is pushed to its idle queue
InitialIdle(n, d) == [i \in 1..n |-> <<d, i>>]

NoSolo == [t |-> NoSlot, idle |-> <<>>, prio |-> <<>>, tasks |-> <<>>]
Concurrent == <<<<"concurrent", "">>>>

Init ==
    /\ ctor \in CtorArgs
    /\ networksPerDevice = DOMAIN ctor.optimalNum
    /\ workerRequests = [d \in Devices |->
                            IF d \in DOMAIN ctor.optimalNum THEN NumRequests(ctor, d) ELSE 0]
    /\ destroyed = {}
    /\ devicePriorities = ctor.networkDevices
    /\ config = PrioritiesValue(ctor.networkDevices)
    /\ idleWorkerRequests = [d \in Devices |-> InitialIdle(workerRequests[d], d)]
    /\ inferPipelineTasks = <<>>
    /\ terminate = FALSE
    /\ task = [s \in AllSlots |-> NoTask]
    /\ pc = [t \in Threads |-> "idle"]
    /\ devices = [t \in Threads |-> <<>>]
    /\ idx = [t \in Threads |-> 1]
    /\ workerRequestPtr = [t \in Threads |-> NoSlot]
    /\ inferPipelineTask = [t \in Threads |-> NoTask]
    /\ dtor = "none"
    /\ nextTask = 1
    /\ nSetConfig = 0
    /\ rejected = {}
    /\ setConfigResult = ""
    /\ solo = NoSolo
    /\ hist = <<>>

\* ---------------------------------------------------------------- history
\* no run, scheduler pass, callback or destructor is in progress
Quiescent == dtor = "none" /\ \A t \in Threads : pc[t] = "idle"

\* an operation of thread t begins
Begin(t, ev) ==
    /\ solo' = IF Quiescent
               THEN [t |-> t, idle |-> idleWorkerRequests,
                     prio |-> devicePriorities, tasks |-> inferPipelineTasks]
               ELSE NoSolo
    /\ hist' = IF Quiescent /\ hist # Concurrent THEN Append(hist, ev) ELSE Concurrent

\* thread t takes a further step of its operation
Step(t) ==
    /\ solo' = IF solo # NoSolo /\ solo.t = t THEN solo ELSE NoSolo
    /\ hist' = hist

\* a step of SetConfig or of the destructor
Other(ev) ==
    /\ solo' = NoSolo
    /\ hist' = IF Quiescent /\ hist # Concurrent THEN Append(hist, ev) ELSE Concurrent

\* ------------------------------------------------------------------ run
\* mutant of RunAccepts: the flag is not looked at
RunAcceptsAlways == TRUE

\* line 125: the read of _terminate
RunAccepts == ~terminate

RunCheck(t) ==
    /\ t \in Callers /\ pc[t] = "idle"
    /\ dtor # "done" /\ nextTask <= MaxTasks
    /\ nextTask' = nextTask + 1
    /\ IF RunAccepts
       THEN /\ pc' = [pc EXCEPT ![t] = "push"]
            /\ inferPipelineTask' = [inferPipelineTask EXCEPT ![t] = nextTask]
            /\ rejected' = rejected
       ELSE /\ rejected' = rejected \cup {nextTask}
            /\ UNCHANGED <<pc, inferPipelineTask>>
    /\ Begin(t, <<"run", "">>)
    /\ UNCHANGED <<ctor, networksPerDevice, workerRequests, destroyed, devicePriorities,
                   config, idleWorkerRequests, inferPipelineTasks, terminate, task,
                   devices, idx, workerRequestPtr, dtor, nSetConfig, setConfigResult>>

\* mutant of PushTask: the task goes to the front of the queue
PushTaskFront(queue, k) == <<k>> \o queue

\* the push of the concurrent queue _inferPipelineTasks: at the back
PushTask(queue, k) == Append(queue, k)

\* line 126: _inferPipelineTasks.push
RunPush(t) ==
    /\ pc[t] = "push"
    /\ inferPipelineTasks' = PushTask(inferPipelineTasks, inferPipelineTask[t])
    /\ inferPipelineTask' = [inferPipelineTask EXCEPT ![t] = NoTask]
    /\ pc' = [pc EXCEPT ![t] = "sched"]
    /\ Step(t)
    /\ UNCHANGED <<ctor, networksPerDevice, workerRequests, destroyed, devicePriorities,
                   config, idleWorkerRequests, terminate, task, devices, idx,
                   workerRequestPtr, dtor, nextTask, nSetConfig, rejected,
                   setConfigResult>>

\* ------------------------------------------- ScheduleToWorkerInferRequest
\* mutant of Snapshot: the pass walks the list given at construction
SnapshotStale == ctor.networkDevices

\* lines 104-107: the copy of _devicePriorities under _mutex
Snapshot == devicePriorities

SchedSnapshot(t) ==
    /\ pc[t] = "sched"
    /\ devices' = [devices EXCEPT ![t] = Snapshot]
    /\ idx' = [idx EXCEPT ![t] = 1]
    /\ pc' = [pc EXCEPT ![t] = "scan"]
    /\ Step(t)
    /\ UNCHANGED <<ctor, networksPerDevice, workerRequests, destroyed, devicePriorities,
                   config, idleWorkerRequests, inferPipelineTasks, terminate, task,
                   workerRequestPtr, inferPipelineTask, dtor, nextTask, nSetConfig,
                   rejected, setConfigResult>>

\* mutant of ScanDevice: the snapshot is walked from its end
ScanDeviceFromBack(t) == devices[t][Len(devices[t]) + 1 - idx[t]].deviceName

\* mutant of ScanDevice: the pass reads _devicePriorities itself, not its copy
ScanDeviceLive(t) ==
    IF idx[t] <= Len(devicePriorities)
    THEN devicePriorities[idx[t]].deviceName
    ELSE devices[t][idx[t]].deviceName

\* line 109: the idle queue the pass looks at
ScanDevice(t) == devices[t][idx[t]].deviceName

\* line 111: idleWorkerRequests.try_pop
SchedTryPopIdle(t) ==
    /\ pc[t] = "scan" /\ idx[t] <= Len(devices[t])
    /\ LET d == ScanDevice(t) IN
       IF idleWorkerRequests[d] # <<>>
       THEN /\ workerRequestPtr' =
                   [workerRequestPtr EXCEPT ![t] = Head(idleWorkerRequests[d])]
            /\ idleWorkerRequests' =
                   [idleWorkerRequests EXCEPT ![d] = Tail(idleWorkerRequests[d])]
            /\ pc' = [pc EXCEPT ![t] = "got"]
            /\ idx' = idx
       ELSE /\ idx' = [idx EXCEPT ![t] = idx[t] + 1]
            /\ UNCHANGED <<workerRequestPtr, idleWorkerRequests, pc>>
    /\ Step(t)
    /\ UNCHANGED <<ctor, networksPerDevice, workerRequests, destroyed, devicePriorities,
                   config, inferPipelineTasks, terminate, task, devices,
                   inferPipelineTask, dtor, nextTask, nSetConfig, rejected,
                   setConfigResult>>

\* line 108/122: the range-for is over, the pass returns
SchedReturn(t) ==
    /\ pc[t] = "scan" /\ idx[t] > Len(devices[t])
    /\ pc' = [pc EXCEPT ![t] = "idle"]
    /\ devices' = [devices EXCEPT ![t] = <<>>]
    /\ idx' = [idx EXCEPT ![t] = 1]
    /\ Step(t)
    /\ UNCHANGED <<ctor, networksPerDevice, workerRequests, destroyed, devicePriorities,
                   config, idleWorkerRequests, inferPipelineTasks, terminate, task,
                   workerRequestPtr, inferPipelineTask, dtor, nextTask, nSetConfig,
                   rejected, setConfigResult>>

\* mutant of PopTask: the popped task stays in the queue
PopTaskKeeps(queue) == queue

\* line 114: what try_pop leaves in _inferPipelineTasks
PopTask(queue) == Tail(queue)

\* line 114: _inferPipelineTasks.try_pop; on failure the IdleGuard of line 112 is
\* about to be destroyed
SchedTryPopTask(t) ==
    /\ pc[t] = "got"
    /\ IF inferPipelineTasks # <<>>
       THEN /\ inferPipelineTask' =
                   [inferPipelineTask EXCEPT ![t] = Head(inferPipelineTasks)]
            /\ inferPipelineTasks' = PopTask(inferPipelineTasks)
            /\ pc' = [pc EXCEPT ![t] = "invoke"]
       ELSE /\ pc' = [pc EXCEPT ![t] = "guard"]
            /\ UNCHANGED <<inferPipelineTask, inferPipelineTasks>>
    /\ Step(t)
    /\ UNCHANGED <<ctor, networksPerDevice, workerRequests, destroyed, devicePriorities,
                   config, idleWorkerRequests, terminate, task, devices, idx,
                   workerRequestPtr, dtor, nextTask, nSetConfig, rejected,
                   setConfigResult>>

\* mutant of AfterInvoke: the break of line 118 is missing
AfterInvokeNoBreak == "scan"

\* line 118: break leaves the range-for and the pass returns
AfterInvoke == "idle"

\* lines 115-118: the task runs on the popped slot (it stores its continuation in
\* the slot's _task and starts the slot's infer request), the guard is released
\* and the loop is left.  On a slot the destructor has already destroyed the
\* call is undefined: the request starts all the same, or the thread faults.
SchedInvoke(t) ==
    /\ pc[t] = "invoke"
    /\ \/ /\ task' = [task EXCEPT ![workerRequestPtr[t]] = inferPipelineTask[t]]
          /\ pc' = [pc EXCEPT ![t] = AfterInvoke]
          /\ workerRequestPtr' = [workerRequestPtr EXCEPT ![t] = NoSlot]
          /\ inferPipelineTask' = [inferPipelineTask EXCEPT ![t] = NoTask]
          /\ devices' = [devices EXCEPT ![t] = IF AfterInvoke = "idle" THEN <<>> ELSE @]
          /\ idx' = [idx EXCEPT ![t] = IF AfterInvoke = "idle" THEN 1 ELSE @ + 1]
       \/ /\ workerRequestPtr[t] \in destroyed
          /\ pc' = [pc EXCEPT ![t] = "fault"]
          /\ UNCHANGED <<task, workerRequestPtr, inferPipelineTask, devices, idx>>
    /\ Step(t)
    /\ UNCHANGED <<ctor, networksPerDevice, workerRequests, destroyed, devicePriorities,
                   config, idleWorkerRequests, inferPipelineTasks, terminate, dtor,
                   nextTask, nSetConfig, rejected, setConfigResult>>

\* lines 37-41 at line 120: no task was popped, ~IdleGuard pushes the slot back and
\* the range-for goes on with the next device
AfterGuard(t) == idx[t] + 1

SchedGuard(t) ==
    /\ pc[t] = "guard"
    /\ idleWorkerRequests' =
           [idleWorkerRequests EXCEPT ![Dev(workerRequestPtr[t])] =
                PushIdle(idleWorkerRequests[Dev(workerRequestPtr[t])], workerRequestPtr[t])]
    /\ workerRequestPtr' = [workerRequestPtr EXCEPT ![t] = NoSlot]
    /\ idx' = [idx EXCEPT ![t] = AfterGuard(t)]
    /\ pc' = [pc EXCEPT ![t] = "scan"]
    /\ Step(t)
    /\ UNCHANGED <<ctor, networksPerDevice, workerRequests, destroyed, devicePriorities,
                   config, inferPipelineTasks, terminate, task, devices,
                   inferPipelineTask, dtor, nextTask, nSetConfig, rejected,
                   setConfigResult>>

\* ---------------------------------------------------- completion callback
\* mutant of AfterContinuation: the exception is swallowed
AfterContinuationSwallow(ok) == "check"

\* line 92: where the callback goes when the continuation has returned (line 94)
\* or has thrown (the exception leaves the lambda, destroying idleGuard)
AfterContinuation(ok) == IF ok THEN "check" ELSE "unwind"

\* lines 88-93: the slot's infer request has finished; the callback builds its
\* IdleGuard, moves the continuation out of _task and calls it.  The
\* continuation returns (ok) or throws.  A request delivers one completion at a
\* time: the next one waits for this callback to return.
Complete(s, ok) ==
    /\ s \in Slots /\ pc[s] = "idle" /\ task[s] # NoTask
    /\ task' = [task EXCEPT ![s] = NoTask]
    /\ pc' = [pc EXCEPT ![s] = AfterContinuation(ok)]
    /\ Begin(s, <<IF ok THEN "complete" ELSE "throw", Dev(s)>>)
    /\ UNCHANGED <<ctor, networksPerDevice, workerRequests, destroyed, devicePriorities,
                   config, idleWorkerRequests, inferPipelineTasks, terminate, devices,
                   idx, workerRequestPtr, inferPipelineTask, dtor, nextTask,
                   nSetConfig, rejected, setConfigResult>>

\* mutant of CallbackBranch: the flag is not looked at
CallbackBranchAlways(t) == "release"

\* mutant of CallbackBranch: the push of line 95 is skipped
CallbackBranchNoPush(t) == IF ~terminate THEN "sched" ELSE "exit"

\* line 94: the read of _terminate
CallbackBranch(t) == IF ~terminate THEN "release" ELSE "exit"

CallbackCheck(s) ==
    /\ s \in Slots /\ pc[s] = "check"
    /\ pc' = [pc EXCEPT ![s] = CallbackBranch(s)]
    /\ Step(s)
    /\ UNCHANGED <<ctor, networksPerDevice, workerRequests, destroyed, devicePriorities,
                   config, idleWorkerRequests, inferPipelineTasks, terminate, task,
                   devices, idx, workerRequestPtr, inferPipelineTask, dtor, nextTask,
                   nSetConfig, rejected, setConfigResult>>

\* line 95: idleGuard.Release()->push(workerRequestPtr); line 96 comes next
CallbackPush(s) ==
    /\ s \in Slots /\ pc[s] = "release"
    /\ idleWorkerRequests' =
           [idleWorkerRequests EXCEPT ![Dev(s)] = PushIdle(idleWorkerRequests[Dev(s)], s)]
    /\ pc' = [pc EXCEPT ![s] = "sched"]
    /\ Step(s)
    /\ UNCHANGED <<ctor, networksPerDevice, workerRequests, destroyed, devicePriorities,
                   config, inferPipelineTasks, terminate, task, devices, idx,
                   workerRequestPtr, inferPipelineTask, dtor, nextTask, nSetConfig,
                   rejected, setConfigResult>>

\* lines 37-41 at line 98 ("exit": _terminate was set) or while the continuation's
\* exception leaves the callback ("unwind"): ~IdleGuard pushes the slot, the
\* callback is over
CallbackGuard(s) ==
    /\ s \in Slots /\ pc[s] \in {"exit", "unwind"}
    /\ idleWorkerRequests' =
           [idleWorkerRequests EXCEPT ![Dev(s)] = PushIdle(idleWorkerRequests[Dev(s)], s)]
    /\ pc' = [pc EXCEPT ![s] = "idle"]
    /\ Step(s)
    /\ UNCHANGED <<ctor, networksPerDevice, workerRequests, destroyed, devicePriorities,
                   config, inferPipelineTasks, terminate, task, devices, idx,
                   workerRequestPtr, inferPipelineTask, dtor, nextTask, nSetConfig,
                   rejected, setConfigResult>>

\* -------------------------------------------------------------- SetConfig
\* line 163
UnsupportedKeys(cfg) ==
    KEY_MULTI_DEVICE_PRIORITIES \notin cfg.keys \/ Cardinality(cfg.keys) > 1
\* mutant of ChangesNumRequests: the check of lines 171-176 is missing
ChangesNumRequestsNever(metaDevices) == FALSE

\* lines 171-173
ChangesNumRequests(metaDevices) ==
    \E i \in 1..Len(metaDevices) : metaDevices[i].numRequestsPerDevices # -1
\* mutant of AddsDevice: the loop of lines 180-187 is missing
AddsDeviceNever(metaDevices) == FALSE

\* lines 180-187
AddsDevice(metaDevices) ==
    \E i \in 1..Len(metaDevices) : metaDevices[i].deviceName \notin networksPerDevice
\* what SetConfig throws: lines 164, 174, 182
SetConfigThrows(cfg) ==
    IF UnsupportedKeys(cfg) \/ ChangesNumRequests(ParseMetaDevices(cfg.value))
    THEN "NOT_IMPLEMENTED"
    ELSE IF AddsDevice(ParseMetaDevices(cfg.value)) THEN "NOT_FOUND" ELSE "ok"

\* lines 161-194; lines 178-192 run under _mutex
SetConfig(cfg) ==
    /\ dtor # "done" /\ nSetConfig < MaxSetConfig
    /\ nSetConfig' = nSetConfig + 1
    /\ setConfigResult' = SetConfigThrows(cfg)
    /\ IF SetConfigThrows(cfg) # "ok"
       THEN UNCHANGED <<devicePriorities, config>>
       ELSE /\ devicePriorities' = ParseMetaDevices(cfg.value)
            /\ config' = cfg.value
    /\ Other(<<"SetConfig", SetConfigThrows(cfg)>>)
    /\ UNCHANGED <<ctor, networksPerDevice, workerRequests, destroyed,
                   idleWorkerRequests, inferPipelineTasks, terminate, task, pc, devices,
                   idx, workerRequestPtr, inferPipelineTask, dtor, nextTask, rejected>>

\* ------------------------------------------------------------- destructor
\* mutant of DevicePrioritiesClear: the registry is left as it is
DevicePrioritiesKept == devicePriorities

\* line 134: _devicePriorities.clear()
DevicePrioritiesClear == <<>>

\* lines 132-135
DestroyClear ==
    /\ dtor = "none"
    /\ devicePriorities' = DevicePrioritiesClear
    /\ dtor' = "flag"
    /\ Other(<<"destroy", "">>)
    /\ UNCHANGED <<ctor, networksPerDevice, workerRequests, destroyed, config,
                   idleWorkerRequests, inferPipelineTasks, terminate, task, pc, devices,
                   idx, workerRequestPtr, inferPipelineTask, nextTask, nSetConfig,
                   rejected, setConfigResult>>

\* line 136
DestroyFlag ==
    /\ dtor = "flag"
    /\ terminate' = TRUE
    /\ dtor' = "clear"
    /\ Other(<<"destroy", "">>)
    /\ UNCHANGED <<ctor, networksPerDevice, workerRequests, destroyed, devicePriorities,
                   config, idleWorkerRequests, inferPipelineTasks, task, pc, devices,
                   idx, workerRequestPtr, inferPipelineTask, nextTask, nSetConfig,
                   rejected, setConfigResult>>

\* what the destruction of a slot's InferRequest waits for: the request started
\* on it has delivered its completion and the callback has returned
InFlight(s) == task[s] # NoTask \/ pc[s] # "idle"

\* line 140: _workerRequests.clear() destroys the slots one after the other, in the
\* order of the (unordered) map; the destructor returns after the last one
DestroySlot(s) ==
    /\ dtor = "clear"
    /\ s \in Slots \ destroyed
    /\ ~InFlight(s)
    /\ destroyed' = destroyed \cup {s}
    /\ dtor' = IF destroyed' = Slots THEN "done" ELSE "clear"
    /\ Other(<<"destroy", "">>)
    /\ UNCHANGED <<ctor, networksPerDevice, workerRequests, devicePriorities, config,
                   idleWorkerRequests, inferPipelineTasks, terminate, task, pc, devices,
                   idx, workerRequestPtr, inferPipelineTask, nextTask, nSetConfig,
                   rejected, setConfigResult>>

\* ------------------------------------------------------------------- spec
Next ==
    \/ \E t \in Callers : RunCheck(t)
    \/ \E t \in Threads : RunPush(t)
    \/ \E t \in Threads : SchedSnapshot(t)
    \/ \E t \in Threads : SchedTryPopIdle(t)
    \/ \E t \in Threads : SchedReturn(t)
    \/ \E t \in Threads : SchedTryPopTask(t)
    \/ \E t \in Threads : SchedInvoke(t)
    \/ \E t \in Threads : SchedGuard(t)
    \/ \E s \in AllSlots, ok \in BOOLEAN : Complete(s, ok)
    \/ \E s \in AllSlots : CallbackCheck(s)
    \/ \E s \in AllSlots : CallbackPush(s)
    \/ \E s \in AllSlots : CallbackGuard(s)
    \/ \E cfg \in ConfigInputs : SetConfig(cfg)
    \/ DestroyClear
    \/ DestroyFlag
    \/ \E s \in AllSlots : DestroySlot(s)

Spec == Init /\ [][Next]_vars

\* ================================================================ claims
Bound(s) == task[s] # NoTask
IdleCount(s) ==
    Cardinality({i \in 1..Len(idleWorkerRequests[Dev(s)]) :
                     idleWorkerRequests[Dev(s)][i] = s})
\* the threads that hold slot s after popping it from its idle queue
Holders(s) ==
    {t \in Threads : workerRequestPtr[t] = s /\ pc[t] \in {"got", "invoke", "guard", "fault"}}
\* the slot's callback has emptied _task and has not pushed the slot yet
InCallback(s) == pc[s] \in {"check", "release", "exit", "unwind"}
Indicator(b) == IF b THEN 1 ELSE 0

\* C1 as stated: in every reachable state each slot is either bound to a task or
\* a member (once) of its device's idle queue, never both and never neither.
C1_BoundXorIdle ==
    \A s \in Slots : IdleCount(s) <= 1 /\ (Bound(s) <=> IdleCount(s) = 0)

\* C1 amended: in every reachable state each slot is in exactly one of four
\* conditions: bound to a task; a member, once, of its device's idle queue; held
\* by exactly one scheduler pass that popped it and has neither bound nor
\* returned it yet; or inside its completion callback, between the call of the
\* continuation and the push back to the idle queue.
C1_ExactlyOnePlace ==
    \A s \in Slots :
        Indicator(Bound(s)) + IdleCount(s) + Cardinality(Holders(s))
            + Indicator(InCallback(s)) = 1

\* a slot in transit while the other slot is bound, and a slot in its callback
C1_Witness ==
    \/ \E s \in Slots : Holders(s) # {} /\ \E r \in Slots : Bound(r)
    \/ \E s \in Slots : InCallback(s) /\ \E r \in Slots : IdleCount(r) = 1

\* the capacity C_i the claim gives device d: the caller's count when the device
\* is listed with a count other than -1, else the reported optimal number
C2_Capacity(d) ==
    IF \E i \in 1..Len(ctor.networkDevices) :
           /\ ctor.networkDevices[i].deviceName = d
           /\ ctor.networkDevices[i].numRequestsPerDevices # -1
    THEN (CHOOSE x \in Range(ctor.networkDevices) : x.deviceName = d).numRequestsPerDevices
    ELSE ctor.optimalNum[d]
RECURSIVE C2_Sum(_)
C2_Sum(ds) ==
    IF ds = {} THEN 0
    ELSE LET d == CHOOSE x \in ds : TRUE IN C2_Capacity(d) + C2_Sum(ds \ {d})
C2_AllBusy == \A s \in Slots : Bound(s)
C2_IsPrefix(p, q) == Len(p) <= Len(q) /\ \A i \in 1..Len(p) : p[i] = q[i]

\* C2: every loaded device i has exactly C_i slots, the number of slots bound to
\* a task never exceeds the sum of the C_i, and while all slots are bound no
\* step takes a task out of the pending queue (only a completion ends that).
C2_BoundedByCapacity ==
    /\ [](/\ \A d \in networksPerDevice : workerRequests[d] = C2_Capacity(d)
          /\ Cardinality({s \in AllSlots : Bound(s)}) <= C2_Sum(networksPerDevice))
    /\ [][C2_AllBusy => C2_IsPrefix(inferPipelineTasks, inferPipelineTasks')]_vars

\* device A was given 2 slots by the caller, both are bound and a task waits
C2_Witness ==
    /\ C2_Capacity("A") = 2 /\ ctor.optimalNum["A"] = 1
    /\ C2_AllBusy /\ inferPipelineTasks # <<>>

\* a run() call of the caller has run from start to end with nothing else
\* running, from a state where the registry's first two devices had an idle slot
\* and no task was pending
C3_SoloRunDone ==
    /\ solo # NoSolo /\ solo.t \in Callers /\ pc[solo.t] = "idle"
    /\ (nextTask - 1) \notin rejected
    /\ Len(solo.prio) >= 2
    /\ solo.idle[solo.prio[1].deviceName] # <<>>
    /\ solo.idle[solo.prio[2].deviceName] # <<>>
    /\ solo.tasks = <<>>

\* C3: such a run(T) binds T to the slot at the front of D1's idle queue (D1 the
\* registry's first device) and leaves D2's idle queue as it was.
C3_FirstDeviceServes ==
    C3_SoloRunDone =>
        /\ task[Head(solo.idle[solo.prio[1].deviceName])] = nextTask - 1
        /\ idleWorkerRequests[solo.prio[2].deviceName]
               = solo.idle[solo.prio[2].deviceName]
        /\ inferPipelineTasks = <<>>

C3_Witness == C3_SoloRunDone /\ \E s \in Slots : task[s] = nextTask - 1

\* C5 as stated: no completion callback enters ScheduleToWorkerInferRequest
\* (line 96) once _terminate is set.
C5_NoCascadeAfterFlag ==
    [][\A s \in AllSlots : (pc[s] = "sched" /\ pc'[s] = "scan") => ~terminate]_vars

\* C5 amended: a completion callback enters the Scheduler only after its own read
\* of the flag (line 94) found it unset; a callback that reads the flag once it is
\* set goes to the guard's requeue and returns without entering the Scheduler.
\* (A callback that read the flag before it was set may enter the Scheduler
\* afterwards.)
C5_NoCascadeOnceFlagRead ==
    [][\A s \in AllSlots :
          /\ (pc[s] = "check" /\ terminate) => pc'[s] \in {"check", "exit"}
          /\ (pc[s] = "check" /\ ~terminate) => pc'[s] \in {"check", "release"}
          /\ pc[s] \in {"exit", "unwind"} => pc'[s] \in {pc[s], "idle"}
          /\ pc'[s] = "release" => pc[s] \in {"check", "release"}
          /\ (pc'[s] = "sched" /\ pc[s] # "sched") => pc[s] = "release"]_vars

\* a callback has read the flag after it was set and is leaving
C5_Witness == terminate /\ \E s \in Slots : pc[s] = "exit"

\* C6: a run(T) call that finds _terminate set changes nothing: T is not
\* appended, no thread enters the Scheduler, the queues, the slots and the
\* registry stay as they are.
C6_RunAfterFlagIsNoOp ==
    [][(nextTask' # nextTask /\ terminate) =>
          /\ rejected' = rejected \cup {nextTask}
          /\ UNCHANGED <<inferPipelineTasks, idleWorkerRequests, devicePriorities,
                         config, task, pc, devices, idx, workerRequestPtr,
                         inferPipelineTask, destroyed>>]_vars

C6_Witness == terminate /\ rejected # {} /\ inferPipelineTasks # <<>>

\* the list names a device that was not loaded at construction
C7_HasNewDevice(cfg) ==
    \E i \in 1..Len(cfg.value) : cfg.value[i][1] \notin DOMAIN ctor.optimalNum

\* C7: SetConfig with a list that names a device absent from the loaded set
\* throws, and leaves _devicePriorities and the stored config value as they were.
C7_NewDeviceRejected ==
    [][\A cfg \in ConfigInputs :
          (SetConfig(cfg) /\ C7_HasNewDevice(cfg)) =>
              /\ setConfigResult' # "ok"
              /\ UNCHANGED <<devicePriorities, config>>]_vars

C7_Witness == setConfigResult = "NOT_FOUND" /\ devicePriorities # <<>>

C9_Setup == ctor.networkDevices = <<DevInfo("A", -1), DevInfo("B", -1)>>
C9_ThreeRuns == <<<<"run", "">>, <<"run", "">>, <<"run", "">>>>
C9_ThenA == Append(C9_ThreeRuns, <<"complete", "A">>)

\* C9: with A and B of one slot each and the registry [A, B], three run calls made
\* one after the other with no completion bind T1 to A's slot and T2 to B's slot
\* and leave T3 pending; when A's slot then completes, its callback returns the
\* slot to A's idle queue and the Scheduler pass it starts binds T3 to it.
C9_Scenario ==
    C9_Setup =>
        /\ (hist = C9_ThreeRuns /\ Quiescent) =>
               /\ task[<<"A", 1>>] = 1 /\ task[<<"B", 1>>] = 2
               /\ inferPipelineTasks = <<3>>
        /\ (hist = C9_ThenA /\ pc[<<"A", 1>>] = "sched") =>
               /\ idleWorkerRequests["A"] = <<<<"A", 1>>>>
               /\ inferPipelineTasks = <<3>>
        /\ (hist = C9_ThenA /\ Quiescent) =>
               /\ task[<<"A", 1>>] = 3 /\ task[<<"B", 1>>] = 2
               /\ inferPipelineTasks = <<>> /\ idleWorkerRequests["A"] = <<>>

C9_Witness == C9_Setup /\ hist = C9_ThenA /\ Quiescent

C10_Scanning == {"scan", "got", "invoke", "guard"}
C10_BA == <<<<"B", -1>>, <<"A", -1>>>>

\* C10: a successful SetConfig(L) stores L as the registry; every Scheduler pass
\* that takes its snapshot while L is the registry (before the next SetConfig and
\* before destruction begins) gets exactly L, walks it front to back, and binds
\* a task only to a slot of the device it is at, hence never to a device dropped
\* from L; and after SetConfig([B, A]), a run made alone with both devices idle
\* and no task pending binds its task to B.
C10_PassFollowsNewOrder ==
    /\ [][/\ (nSetConfig' # nSetConfig /\ setConfigResult' = "ok") =>
                /\ \E cfg \in ConfigInputs : SetConfig(cfg) /\ config' = cfg.value
                /\ Names(devicePriorities') = [i \in 1..Len(config') |-> config'[i][1]]
          /\ \A t \in Threads :
                /\ (pc[t] = "sched" /\ pc'[t] = "scan" /\ dtor = "none") =>
                       Names(devices'[t]) = [i \in 1..Len(config) |-> config[i][1]]
                /\ (pc[t] \in C10_Scanning /\ pc'[t] \in C10_Scanning) =>
                       devices'[t] = devices[t] /\ idx'[t] \in {idx[t], idx[t] + 1}
          /\ \A s \in AllSlots :
                (task'[s] # task[s] /\ task'[s] # NoTask) =>
                    \E t \in Threads :
                        /\ pc[t] = "invoke" /\ workerRequestPtr[t] = s
                        /\ Dev(s) = devices[t][idx[t]].deviceName]_vars
    /\ [](\A t \in Threads :
              pc[t] \in {"got", "invoke", "guard"} =>
                  Dev(workerRequestPtr[t]) = devices[t][idx[t]].deviceName)
    /\ []((C3_SoloRunDone /\ config = C10_BA /\ Names(solo.prio) = <<"B", "A">>) =>
              \E s \in Slots : Dev(s) = "B" /\ task[s] = nextTask - 1)

\* after SetConfig([B, A]) a run made alone has bound its task to B's slot
C10_Witness ==
    /\ C3_SoloRunDone /\ config = C10_BA /\ setConfigResult = "ok"
    /\ \E s \in Slots : Dev(s) = "B" /\ task[s] = nextTask - 1

\* C8: once the destructor has returned, no slot has a request in flight and no
\* completion callback is running or still to run.
C8_NothingInFlightAfterDestruction ==
    dtor = "done" => \A s \in Slots : ~InFlight(s)

\* what the claim calls an unsupported request: the priorities key is missing,
\* another key comes with it, or an item of the list carries a request count
C11_Unsupported(cfg) ==
    \/ KEY_MULTI_DEVICE_PRIORITIES \notin cfg.keys
    \/ cfg.keys \ {KEY_MULTI_DEVICE_PRIORITIES} # {}
    \/ \E i \in 1..Len(cfg.value) : cfg.value[i][2] # -1

\* C11: a SetConfig call without the priorities key, with another key next to it,
\* or with a list that sets a request count other than -1 throws
\* NOT_IMPLEMENTED and leaves _devicePriorities and the stored config as they were.
C11_UnsupportedRejected ==
    [][\A cfg \in ConfigInputs :
          (SetConfig(cfg) /\ C11_Unsupported(cfg)) =>
              /\ setConfigResult' = "NOT_IMPLEMENTED"
              /\ UNCHANGED <<devicePriorities, config>>]_vars

\* an unsupported request was refused while the network was in use, and the
\* registry and the stored value are still those of construction
C11_Witness ==
    /\ setConfigResult = "NOT_IMPLEMENTED"
    /\ devicePriorities = ctor.networkDevices
    /\ config = PrioritiesValue(ctor.networkDevices)
    /\ \E s \in Slots : Bound(s)

\* thread t binds a task to the slot it holds in this step
C12_Binds(t) ==
    /\ pc[t] = "invoke" /\ workerRequestPtr[t] \in Slots
    /\ task'[workerRequestPtr[t]] = inferPipelineTask[t]
    /\ task[workerRequestPtr[t]] # task'[workerRequestPtr[t]]

\* C12: while the network is not being destroyed, whenever a Scheduler pass binds
\* a task to a slot, the idle queue of every device that comes earlier in the
\* pass's snapshot is empty at that moment.
C12_NoLowerPriorityBind ==
    [][\A t \in Threads :
          (C12_Binds(t) /\ dtor = "none") =>
              \A j \in 1..(idx[t] - 1) :
                  idleWorkerRequests[devices[t][j].deviceName] = <<>>]_vars

\* C13: a Scheduler pass that popped an idle slot and found no pending task
\* returns the slot to the idle queue of the device it came from and ends its
\* scan: it is not left at a later device of its snapshot, whose idle queue its
\* next step would pop.
C13_ScanStopsWithoutTask ==
    [][\A t \in Threads :
          (pc[t] = "guard" /\ pc'[t] # "guard") =>
              /\ idleWorkerRequests' =
                     [idleWorkerRequests EXCEPT ![devices[t][idx[t]].deviceName] =
                          Append(@, workerRequestPtr[t])]
              /\ ~(pc'[t] = "scan" /\ idx'[t] <= Len(devices'[t]))]_vars

\* C14: once _terminate is set no step binds a task to a slot, whichever thread
\* takes it and whenever that thread took its snapshot or read the flag.
C14_NoBindAfterFlag ==
    [][\A s \in AllSlots :
          (task'[s] # task[s] /\ task'[s] # NoTask) => ~terminate]_vars

\* C15: a Scheduler pass walks the copy of the registry it took at its start: the
\* copy is the registry of that moment, no step of any thread (a SetConfig
\* included) changes the copy or the position of a pass in progress other than
\* the pass's own move to the next device, every slot the pass pops comes from
\* the device its copy names at its position, and a SetConfig is seen by the
\* snapshots taken after it.
C15_PassKeepsItsSnapshot ==
    [][/\ \A t \in Threads :
             /\ (pc[t] = "sched" /\ pc'[t] = "scan") => devices'[t] = devicePriorities
             /\ (pc[t] \in C10_Scanning /\ pc'[t] \in C10_Scanning) =>
                    /\ devices'[t] = devices[t]
                    /\ idx'[t] \in {idx[t], idx[t] + 1}
             /\ (pc[t] = "scan" /\ pc'[t] = "got") =>
                    /\ Dev(workerRequestPtr'[t]) = devices[t][idx[t]].deviceName
                    /\ idleWorkerRequests[devices[t][idx[t]].deviceName] # <<>>
                    /\ workerRequestPtr'[t] =
                           Head(idleWorkerRequests[devices[t][idx[t]].deviceName])
       /\ (nSetConfig' # nSetConfig) =>
             /\ UNCHANGED <<devices, idx, pc, workerRequestPtr>>
             /\ setConfigResult' = "ok" => Names(devicePriorities')
                    = [i \in 1..Len(config') |-> config'[i][1]]]_vars

\* a pass that took [A, B] before a SetConfig([B]) has gone on to its second
\* device and popped a slot there, with [B] as the registry
C15_Witness ==
    /\ setConfigResult = "ok" /\ dtor = "none" /\ Names(devicePriorities) = <<"B">>
    /\ \E t \in Threads :
           /\ pc[t] = "got" /\ Names(devices[t]) = <<"A", "B">> /\ idx[t] = 2

\* C16: a Scheduler pass is over with its first pairing: the step that binds a
\* task binds one task to one slot and ends the pass (the thread holds no
\* snapshot, slot or task any more), so it pops no further slot or task; a pass
\* holds at most one slot and one task at a time; and every look at an idle
\* queue is at a position inside the snapshot, which only moves forward, so the
\* pass visits at most as many devices as its snapshot holds.
C16_OnePairingPerPass ==
    /\ [][\A t \in Threads :
             /\ (pc[t] = "invoke" /\ pc'[t] \notin {"invoke", "fault"}) =>
                    /\ pc'[t] = "idle" /\ devices'[t] = <<>>
                    /\ workerRequestPtr'[t] = NoSlot /\ inferPipelineTask'[t] = NoTask
                    /\ task' = [task EXCEPT ![workerRequestPtr[t]] = inferPipelineTask[t]]
                    /\ UNCHANGED <<idleWorkerRequests, inferPipelineTasks>>
             /\ (pc[t] \in C10_Scanning /\ pc'[t] \in C10_Scanning /\ idx'[t] # idx[t]) =>
                    /\ idx'[t] = idx[t] + 1
                    /\ pc[t] \in {"scan", "guard"} /\ pc'[t] = "scan"
             /\ (pc[t] = "scan" /\ pc'[t] = "got") =>
                    idx[t] \in 1..Len(devices[t])]_vars
    /\ [](\A t \in Threads :
              /\ pc[t] \in C10_Scanning => idx[t] \in 1..(Len(devices[t]) + 1)
              /\ pc[t] \in {"scan", "idle"} =>
                     workerRequestPtr[t] = NoSlot /\ inferPipelineTask[t] = NoTask
              /\ pc[t] \in {"got", "guard"} => inferPipelineTask[t] = NoTask)

\* a run made alone found a task pending (left there by a lost wake-up), its pass
\* bound that task and returned, leaving the run's own task in the queue
C16_Witness ==
    /\ solo # NoSolo /\ solo.t \in Callers /\ pc[solo.t] = "idle" /\ dtor = "none"
    /\ solo.tasks # <<>> /\ inferPipelineTasks = <<nextTask - 1>>
    /\ \E s \in Slots : task[s] = Head(solo.tasks)

\* the tasks run() has pushed so far, in the order of their pushes (the one
\* calling thread pushes them in the order of their ids), and those of them a
\* Scheduler pass has popped
C17_Pushed ==
    {k \in 1..(nextTask - 1) :
         k \notin rejected /\ \A t \in Callers : ~(pc[t] = "push" /\ inferPipelineTask[t] = k)}
C17_Popped == C17_Pushed \ Range(inferPipelineTasks)

\* C17: tasks leave _inferPipelineTasks in the order run() pushed them: a task
\* that has been popped was pushed before every task still in the queue, and
\* each pop takes the task pushed earliest among those in the queue.
C17_PendingFifo ==
    /\ [](\A k2 \in C17_Popped : \A k1 \in Range(inferPipelineTasks) : k2 < k1)
    /\ [][\A t \in Threads :
             (pc[t] = "got" /\ pc'[t] = "invoke") =>
                 \A k1 \in Range(inferPipelineTasks) : inferPipelineTask'[t] <= k1]_vars

\* the pass of a run() call found an older task in the queue next to the one the
\* call had just pushed, and has popped the older one
C17_Witness ==
    \E t \in Callers :
        /\ pc[t] = "invoke" /\ inferPipelineTasks = <<nextTask - 1>>
        /\ inferPipelineTask[t] < nextTask - 1

\* C18: in a completion callback the continuation is taken out of the slot and
\* called once (the step that starts the callback empties _task, and nothing
\* else empties it); the slot is not in any idle queue until the callback pushes
\* it; the callback pushes it once, to the idle queue of its own device, after
\* the continuation has returned; and when the flag was read unset the callback
\* enters the Scheduler only by the step that follows its push.
C18_CallbackPushesOnce ==
    /\ [][\A s \in AllSlots :
             /\ (task[s] # NoTask /\ task'[s] = NoTask) =>
                    /\ pc[s] = "idle" /\ pc'[s] \in {"check", "unwind"}
                    /\ UNCHANGED idleWorkerRequests
             /\ (pc[s] = "idle" /\ pc'[s] # "idle") =>
                    task[s] # NoTask /\ task'[s] = NoTask
             /\ (pc[s] = "check" /\ pc'[s] # "check") =>
                    /\ pc'[s] = (IF terminate THEN "exit" ELSE "release")
                    /\ UNCHANGED idleWorkerRequests
             /\ (pc[s] \in {"release", "exit", "unwind"} /\ pc'[s] # pc[s]) =>
                    /\ idleWorkerRequests' =
                           [idleWorkerRequests EXCEPT ![Dev(s)] = Append(@, s)]
                    /\ pc'[s] = (IF pc[s] = "release" THEN "sched" ELSE "idle")
             /\ (pc'[s] = "sched" /\ pc[s] # "sched") => pc[s] = "release"]_vars
    /\ [](\A s \in Slots : InCallback(s) => IdleCount(s) = 0 /\ ~Bound(s))
    /\ [](\A s \in Slots : pc[s] = "sched" =>
              IdleCount(s) + Cardinality(Holders(s)) + Indicator(Bound(s)) = 1)

\* with the flag unset, the pass started by a callback has popped the slot the
\* callback had just pushed and a pending task, and is about to bind them
C18_Witness ==
    /\ ~terminate /\ dtor = "none"
    /\ \E s \in Slots : pc[s] = "invoke" /\ workerRequestPtr[s] = s

\* C19: when the continuation called by a completion callback throws, the
\* callback does nothing but the guard's push: the slot goes to the idle queue
\* of its own device once, the flag is not read, no snapshot is taken, no slot
\* or task is popped, and the callback ends without entering the Scheduler.
C19_ThrowStillRequeues ==
    /\ [][\A s \in AllSlots :
             /\ Complete(s, FALSE) =>
                    pc'[s] = "unwind" /\ UNCHANGED idleWorkerRequests
             /\ (pc[s] = "unwind" /\ pc'[s] # "unwind") =>
                    /\ pc'[s] = "idle"
                    /\ idleWorkerRequests' =
                           [idleWorkerRequests EXCEPT ![Dev(s)] = Append(@, s)]
                    /\ UNCHANGED <<inferPipelineTasks, task, devices, idx,
                                   workerRequestPtr, inferPipelineTask>>]_vars
    /\ [](\A s \in Slots :
              pc[s] = "unwind" =>
                  /\ IdleCount(s) = 0 /\ ~Bound(s) /\ Holders(s) = {}
                  /\ devices[s] = <<>> /\ workerRequestPtr[s] = NoSlot)

\* A and B busy with T1 and T2 and T3 pending; the continuation of T1 threw: the
\* slot of A is back in its idle queue and T3 is still pending, no pass was made
C19_Witness ==
    /\ hist = Append(C9_ThreeRuns, <<"throw", "A">>) /\ Quiescent
    /\ idleWorkerRequests["A"] = <<<<"A", 1>>>> /\ inferPipelineTasks = <<3>>

\* C20: the destructor first empties the registry, then sets _terminate, then
\* destroys the slots.  After the clear every step other than a SetConfig leaves
\* the registry empty, so without a SetConfig after the start of destruction
\* the registry is empty whenever the flag is set; and a Scheduler pass that
\* copies the empty registry returns without popping a slot or a task.
C20_DestructionOrder ==
    /\ [][/\ (dtor = "none" /\ dtor' # "none") =>
                devicePriorities' = <<>> /\ ~terminate' /\ destroyed' = {}
          /\ (terminate' # terminate) =>
                /\ terminate' /\ dtor # "none" /\ destroyed' = {}
                /\ nSetConfig = 0 => devicePriorities = <<>>
          /\ (destroyed' # destroyed) => terminate
          /\ (dtor # "none" /\ devicePriorities = <<>> /\ devicePriorities' # <<>>) =>
                nSetConfig' # nSetConfig
          /\ \A t \in Threads :
                /\ (pc[t] = "sched" /\ pc'[t] = "scan" /\ devicePriorities = <<>>) =>
                       devices'[t] = <<>>
                /\ (pc[t] = "scan" /\ devices[t] = <<>> /\ pc'[t] # "scan") =>
                       /\ pc'[t] = "idle"
                       /\ UNCHANGED <<idleWorkerRequests, inferPipelineTasks, task>>]_vars
    /\ []((terminate /\ nSetConfig = 0) => devicePriorities = <<>>)

\* the flag is set, no slot is destroyed yet, a task is pending and a slot is
\* idle, and a pass that copied the registry after the clear holds an empty copy
C20_Witness ==
    /\ terminate /\ devicePriorities = <<>> /\ destroyed = {} /\ nSetConfig = 0
    /\ inferPipelineTasks # <<>>
    /\ \E s \in Slots : IdleCount(s) = 1
    /\ \E t \in Threads : pc[t] = "scan" /\ devices[t] = <<>>

\* C21: in every state where _terminate is unset and no run call, Scheduler pass,
\* completion callback or destructor is in progress, the pending queue is empty
\* or no device of the registry has a slot in its idle queue.
C21_WorkConservedAtQuiescence ==
    (~terminate /\ Quiescent) =>
        ~(/\ inferPipelineTasks # <<>>
          /\ \E i \in 1..Len(devicePriorities) :
                 idleWorkerRequests[devicePriorities[i].deviceName] # <<>>)

\* where task k is: how often in the pending queue, in the hand of a Scheduler
\* pass that popped it, and bound to a slot
C22_InQueue(k) ==
    Cardinality({i \in 1..Len(inferPipelineTasks) : inferPipelineTasks[i] = k})
C22_InHand(k) ==
    Cardinality({t \in Threads :
                     pc[t] \in {"invoke", "fault"} /\ inferPipelineTask[t] = k})
C22_OnSlot(k) == Cardinality({s \in AllSlots : task[s] = k})

\* C22: a task run() has pushed is never in two places: it is in the pending
\* queue once, or in the hand of one pass that popped it, or bound to one slot,
\* or it has completed.  It moves only forward: into the queue from run, from
\* the front of the queue into the hand of one pass, from that hand (while the
\* network is not being destroyed) onto the free slot that pass holds, and off
\* the slot by the slot's completion; so no task is invoked twice and no popped
\* task is dropped.
C22_NoTaskLostOrDuplicated ==
    /\ [](\A k \in 1..MaxTasks :
              /\ C22_InQueue(k) + C22_InHand(k) + C22_OnSlot(k) <= 1
              /\ k \notin C17_Pushed => C22_InQueue(k) + C22_InHand(k) + C22_OnSlot(k) = 0)
    /\ [][\A k \in 1..MaxTasks :
             /\ C22_InQueue(k)' > C22_InQueue(k) =>
                    /\ k = nextTask - 1 /\ k \notin C17_Pushed /\ k \in C17_Pushed'
                    /\ \E t \in Callers : pc[t] = "push" /\ pc'[t] = "sched"
             /\ C22_InQueue(k)' < C22_InQueue(k) =>
                    /\ k = Head(inferPipelineTasks) /\ C22_InHand(k)' = 1
                    /\ \E t \in Threads :
                           /\ pc[t] = "got" /\ pc'[t] = "invoke"
                           /\ inferPipelineTask'[t] = k
                           /\ workerRequestPtr'[t] = workerRequestPtr[t]
             /\ C22_InHand(k)' > C22_InHand(k) => C22_InQueue(k)' < C22_InQueue(k)
             /\ C22_OnSlot(k)' > C22_OnSlot(k) => C22_InHand(k)' < C22_InHand(k)
             /\ C22_OnSlot(k)' < C22_OnSlot(k) =>
                    \E s \in AllSlots :
                        task[s] = k /\ pc[s] = "idle" /\ pc'[s] \in {"check", "unwind"}
             /\ \A t \in Threads :
                    (/\ pc[t] = "invoke" /\ inferPipelineTask[t] = k
                     /\ pc'[t] # "invoke" /\ dtor = "none") =>
                        /\ task[workerRequestPtr[t]] = NoTask
                        /\ task'[workerRequestPtr[t]] = k
                        /\ C22_OnSlot(k)' = 1 /\ C22_InHand(k)' = 0]_vars

\* T1 has completed, T2 is bound to a slot and T3 is pending
C22_Witness ==
    /\ dtor = "none" /\ C17_Pushed = {1, 2, 3}
    /\ C22_InQueue(1) + C22_InHand(1) + C22_OnSlot(1) = 0
    /\ C22_OnSlot(2) = 1 /\ C22_InQueue(3) = 1

\* ---------------------------------------------------------------- liveness
\* The network is never destroyed and no continuation throws; every thread that
\* is inside run, a Scheduler pass or a callback goes on running, and every
\* request started on a slot completes.  No further run call is promised.
ThreadStep(t) ==
    \/ RunPush(t) \/ SchedSnapshot(t) \/ SchedTryPopIdle(t) \/ SchedReturn(t)
    \/ SchedTryPopTask(t) \/ SchedInvoke(t) \/ SchedGuard(t)
    \/ CallbackCheck(t) \/ CallbackPush(t)

NextLive ==
    \/ \E t \in Callers : RunCheck(t)
    \/ \E t \in Threads : RunPush(t)
    \/ \E t \in Threads : SchedSnapshot(t)
    \/ \E t \in Threads : SchedTryPopIdle(t)
    \/ \E t \in Threads : SchedReturn(t)
    \/ \E t \in Threads : SchedTryPopTask(t)
    \/ \E t \in Threads : SchedInvoke(t)
    \/ \E t \in Threads : SchedGuard(t)
    \/ \E s \in AllSlots : Complete(s, TRUE)
    \/ \E s \in AllSlots : CallbackCheck(s)
    \/ \E s \in AllSlots : CallbackPush(s)
    \/ \E cfg \in ConfigInputs : SetConfig(cfg)

LiveSpec ==
    /\ Init /\ [][NextLive]_vars
    /\ \A t \in Threads : WF_vars(ThreadStep(t))
    /\ \A s \in AllSlots : WF_vars(Complete(s, TRUE))

\* C4: while the network lives (flag unset, registry non-empty) and every started
\* request completes, every task run() has put in the pending queue is
\* eventually bound to a slot, with no further run call.
C4_PendingEventuallyBound ==
    \A k \in 1..MaxTasks :
        (k \in Range(inferPipelineTasks)) ~> (\E s \in Slots : task[s] = k)

====
